---------------------------- MODULE Spec2Model ----------------------------
(***************************************************************************)
(* A model of the evaluation runner (evaluate.py), the paired-outcome      *)
(* comparators (calculate_mcnemar.py, calculate_b_c.py) and the Pareto     *)
(* frontier engine (pareto_analysis.py).                                   *)
(*                                                                         *)
(* Text is modelled as a sequence of tokens; Python's None as the string   *)
(* "None" where only texts are compared with it.  A value that may be      *)
(* missing (a dictionary key, a variable not yet assigned, a result not    *)
(* returned) is a sequence of length at most one: <<>> when missing, <<v>> *)
(* when it is v.  Python lists are 0-based, TLA+ sequences 1-based: the    *)
(* element the code calls xs[i] is xs[i + 1] here.                         *)
(***************************************************************************)
EXTENDS Integers, Sequences, FiniteSets, TLC

VARIABLES
    \* ---- evaluate.py ----
    config,         \* EvalConfig: num_q, max_retries, strip_think
    qa_file,        \* the "qa_pairs" list of the benchmark file
    pc,             \* position of run_eval / main
    pairs,          \* run_eval: pairs
    idx,            \* run_eval: idx of the enumerate loop
    attempt,        \* run_eval: attempt of the retry loop
    last_exc,       \* run_eval: last_exc
    ans,            \* run_eval: ans
    qa_results,     \* run_eval: qa_results
    result_log,     \* run_eval: result_log
    events,         \* per question, the backend calls and sleeps made for it
    files,          \* main: the output files written so far
    \* ---- calculate_mcnemar.py / calculate_b_c.py ----
    results1,       \* the first graded sequence as loaded
    results2,       \* the second graded sequence as loaded
    cmp_pc,         \* position of the comparator's main
    cmp_impl,       \* which comparator ran: "relaxed" or "strict"
    table,          \* the dictionary calculate_mcnemar_values returned
    cmp_error,      \* the exception that ended the comparison
    cmp_log,        \* the lines the comparison printed
    chi_sq,         \* main: chi_sq, a fraction <<numerator, denominator>>
    decision,       \* main: which branch of the significance test printed
    stat_in,        \* the discordant counts <<b, c>> handed to the statistic
    stat_out,       \* the statistic and the decision main drew from them
    \* ---- pareto_analysis.py ----
    log_files,      \* the *.log files of the results directory, sorted
    par_pc,         \* position of pareto_analysis.main
    all_models,     \* main: all_models
    par_groups,     \* main: en_models and no_models, by language
    par_flags,      \* per language, what is_pareto_optimal returned for it
    par_lang,       \* main: position of the loop over the languages
    par_total,      \* main: total_gpu_hours
    par_titles,     \* per language, the total create_pareto_plot was handed
    par_log,        \* the "skip ..." lines main printed
    \* ---- pareto_analysis.is_pareto_optimal on its own ----
    fr_group,       \* the list of runs handed to is_pareto_optimal
    fr_flags,       \* what is_pareto_optimal returned for it
    fr_frontier,    \* create_pareto_plot: pareto_models
    fr_drop,        \* the position of the run then taken out of the list
    fr_rest_flags,  \* what is_pareto_optimal returned for the shorter list
    \* ---- add_gpu_count.py ----
    bf_dir,         \* the *.log files of the results directory, sorted
    bf_written,     \* per file the loop has passed, the num_gpus written to it
    bf_updated,     \* update_log_files: updated
    bf_log,         \* the lines update_log_files printed
    \* ---- calculate_mcnemar.load_model_results on a .txt list ----
    bl_list,        \* the files the list names, in order
    bl_pos,         \* how many of them the loop has passed
    bl_results,     \* all_results
    bl_names,       \* filenames
    bl_log,         \* the warnings printed
    bl_error,       \* the exception that ended load_model_results
    \* ---- evaluate.py lines 126-129 on their own ----
    sp_strip,       \* config.strip_think
    sp_in,          \* the text the backend returned
    sp_out          \* ans, once post-processed

run_vars == <<config, qa_file, pc, pairs, idx, attempt, last_exc, ans,
              qa_results, result_log, events, files>>

cmp_vars == <<results1, results2, cmp_pc, cmp_impl, table, cmp_error,
              cmp_log, chi_sq, decision>>

stat_vars == <<stat_in, stat_out>>

par_vars == <<log_files, par_pc, all_models, par_groups, par_flags, par_lang,
              par_total, par_titles, par_log>>

fr_vars == <<fr_group, fr_flags, fr_frontier, fr_drop, fr_rest_flags>>

bf_vars == <<bf_dir, bf_written, bf_updated, bf_log>>

bl_vars == <<bl_list, bl_pos, bl_results, bl_names, bl_log, bl_error>>

sp_vars == <<sp_strip, sp_in, sp_out>>

tool_vars == <<fr_vars, bf_vars, bl_vars, sp_vars>>

vars == <<run_vars, cmp_vars, stat_vars, par_vars, tool_vars>>

None == "None"

\* a missing value, and a present one
Missing == <<>>

Some(v) == <<v>>

\* dict.get(key, default)
Get(opt, default) == IF opt = Missing THEN default ELSE opt[1]

(***************************************************************************)
(* Bounds of the model.                                                    *)
(***************************************************************************)
\* the longest benchmark file
MaxPairs == 2

\* the largest --max-retries
MaxRetries == 2

\* the longest graded sequence
MaxLen == 2

\* the most *.log files in the results directory
MaxLogs == 3

\* the largest discordant count handed to the statistic on its own
MaxCount == 10

\* the longest grade text
MaxGradeLen == 2

\* the longest graded sequence a run of the evaluation leaves
MaxItems == 4

\* the largest gpu_hours of a run handed to is_pareto_optimal on its own
MaxHours == 3

\* the longest list handed to is_pareto_optimal on its own
MaxGroup == 3

\* the most *.log files in the directory the backfill goes through
MaxDir == 2

\* the most paths in a .txt list of result files
MaxList == 3

\* the longest text the backend returns to the post-processing on its own
MaxText == 5

(***************************************************************************)
(* Small helpers.                                                          *)
(***************************************************************************)
Min(x, y) == IF x <= y THEN x ELSE y

Max(x, y) == IF x >= y THEN x ELSE y

\* Python's xs[:n] for n >= 0
Prefix(xs, n) == SubSeq(xs, 1, Min(n, Len(xs)))

\* Python's xs[n:] for n >= 0 (n counts the dropped elements)
Suffix(xs, n) == SubSeq(xs, n + 1, Len(xs))

\* A float is the fraction <<numerator, denominator>> with a positive
\* denominator; the rounding of floating-point arithmetic is not modelled.
FracLess(x, y) == x[1] * y[2] < y[1] * x[2]

\* the sum, kept over the common denominator when there is one
FracAdd(x, y) ==
    IF x[2] = y[2] THEN <<x[1] + y[1], x[2]>>
    ELSE <<x[1] * y[2] + y[1] * x[2], x[2] * y[2]>>

FracEq(x, y) == x[1] * y[2] = y[1] * x[2]

(***************************************************************************)
(* evaluate.py                                                             *)
(***************************************************************************)
\* the causes a failed backend call can carry
Causes == {"timeout", "refused"}

\* the texts a successful backend call can return
Responses ==
    { <<"a">>,
      <<"sp", "a", "NL">>,
      <<"<think>", "b", "</think>", "NL", "a">> }

Whitespace == {"sp", "NL"}

RECURSIVE LStrip(_)
LStrip(s) ==
    IF s # <<>> /\ Head(s) \in Whitespace THEN LStrip(Tail(s)) ELSE s

RECURSIVE RStrip(_)
RStrip(s) ==
    IF s # <<>> /\ s[Len(s)] \in Whitespace
    THEN RStrip(SubSeq(s, 1, Len(s) - 1))
    ELSE s

\* str.strip()
Strip(s) == RStrip(LStrip(s))

\* the positions of token t in s
Positions(s, t) == {i \in 1..Len(s) : s[i] = t}

SetMin(S) == CHOOSE x \in S : \A y \in S : x <= y

SetMax(S) == CHOOSE x \in S : \A y \in S : x >= y

\* re.sub(THINK_REGEX, "", s) with THINK_REGEX = <think>.*</think>\n? under
\* DOTALL: the leftmost match starts at the first <think> that a </think>
\* follows; ".*" is greedy, so the match runs to the last </think> of the
\* text, and takes one newline after it.  Nothing after the last </think>
\* can match again.
SubThink(s) ==
    LET opens  == Positions(s, "<think>")
        closes == Positions(s, "</think>")
    IN  IF opens = {} \/ closes = {} \/ SetMax(closes) < SetMin(opens)
        THEN s
        ELSE LET p == SetMin(opens)
                 q == SetMax(closes)
                 e == IF q < Len(s) /\ s[q + 1] = "NL" THEN q + 1 ELSE q
             IN  SubSeq(s, 1, p - 1) \o Suffix(s, e)

\* lines 126-129
PostProcess(strip_think, s) ==
    IF strip_think THEN Strip(SubThink(s)) ELSE Strip(s)

\* a sentinel that drops the cause
ErrorSentinelNoCause(exc) == <<"ERROR">>

\* line 137: f"ERROR: {last_exc}" if last_exc else "ERROR"
ErrorSentinel(exc) == IF exc # None THEN <<"ERROR: ", exc>> ELSE <<"ERROR">>

\* the benchmark file with n pairs
QaFile(n) == [i \in 1..n |-> [question |-> <<"q", i>>, answer |-> <<"r", i>>]]

\* _load_pairs: pairs[:num_q]
LoadPairs(file, num_q) == Prefix(file, num_q)

\* lines 142-149: the record appended for the question at idx
MakeRecord(i, pair, a) ==
    [question_num |-> i, question |-> pair.question,
     model_ans |-> a, correct_ans |-> pair.answer]

\* the event log with one more event for the current question
Logged(ev) == [events EXCEPT ![Len(events)] = Append(@, ev)]

RunIdle ==
    /\ config = [num_q |-> 0, max_retries |-> 0, strip_think |-> FALSE]
    /\ qa_file = <<>>
    /\ pc = "idle"
    /\ pairs = <<>>
    /\ idx = 0
    /\ attempt = 0
    /\ last_exc = None
    /\ ans = Missing
    /\ qa_results = <<>>
    /\ result_log = Missing
    /\ events = <<>>
    /\ files = {}

RunInit ==
    /\ config \in [num_q : 0..(MaxPairs + 1),
                   max_retries : 0..MaxRetries,
                   strip_think : BOOLEAN]
    /\ qa_file \in {QaFile(n) : n \in 0..MaxPairs}
    /\ pc = "start"
    /\ pairs = <<>>
    /\ idx = 0
    /\ attempt = 0
    /\ last_exc = None
    /\ ans = Missing
    /\ qa_results = <<>>
    /\ result_log = Missing
    /\ events = <<>>
    /\ files = {}

\* lines 100-109: load the pairs, start with no results
StartEval ==
    /\ pc = "start"
    /\ pairs' = LoadPairs(qa_file, config.num_q)
    /\ qa_results' = <<>>
    /\ pc' = "for"
    /\ UNCHANGED <<config, qa_file, idx, attempt, last_exc, ans, result_log,
                   events, files>>
    /\ UNCHANGED <<cmp_vars, stat_vars, par_vars, tool_vars>>

\* lines 110-116: the next question, its first attempt (range(1, max_retries + 1)
\* is empty when max_retries < 1, and the loop's else clause runs at once)
NextQuestion ==
    /\ pc = "for"
    /\ idx < Len(pairs)
    /\ last_exc' = None
    /\ ans' = Missing
    /\ attempt' = 1
    /\ events' = Append(events, <<>>)
    /\ pc' = IF 1 <= config.max_retries THEN "try" ELSE "else"
    /\ UNCHANGED <<config, qa_file, pairs, idx, qa_results, result_log, files>>
    /\ UNCHANGED <<cmp_vars, stat_vars, par_vars, tool_vars>>

\* lines 117-130: the backend answers; the text is post-processed; break
ChatOk ==
    /\ pc = "try"
    /\ \E content \in Responses :
           ans' = Some(PostProcess(config.strip_think, content))
    /\ events' = Logged([kind |-> "ok", exc |-> None])
    /\ pc' = "append"
    /\ UNCHANGED <<config, qa_file, pairs, idx, attempt, last_exc, qa_results,
                   result_log, files>>
    /\ UNCHANGED <<cmp_vars, stat_vars, par_vars, tool_vars>>

\* a retry loop that sleeps and retries once more after the last attempt
ChatFailOffByOne ==
    /\ pc = "try"
    /\ \E exc \in Causes :
           /\ last_exc' = exc
           /\ events' = Logged([kind |-> "fail", exc |-> exc])
    /\ pc' = IF attempt <= config.max_retries THEN "sleep" ELSE "else"
    /\ UNCHANGED <<config, qa_file, pairs, idx, attempt, ans, qa_results,
                   result_log, files>>
    /\ UNCHANGED <<cmp_vars, stat_vars, par_vars, tool_vars>>

\* lines 131-135: the backend call raises; sleep only if an attempt remains
ChatFail ==
    /\ pc = "try"
    /\ \E exc \in Causes :
           /\ last_exc' = exc
           /\ events' = Logged([kind |-> "fail", exc |-> exc])
    /\ pc' = IF attempt < config.max_retries THEN "sleep" ELSE "else"
    /\ UNCHANGED <<config, qa_file, pairs, idx, attempt, ans, qa_results,
                   result_log, files>>
    /\ UNCHANGED <<cmp_vars, stat_vars, par_vars, tool_vars>>

\* line 135, then the next iteration of line 116
Sleep ==
    /\ pc = "sleep"
    /\ events' = Logged([kind |-> "sleep", exc |-> None])
    /\ attempt' = attempt + 1
    /\ pc' = "try"
    /\ UNCHANGED <<config, qa_file, pairs, idx, last_exc, ans, qa_results,
                   result_log, files>>
    /\ UNCHANGED <<cmp_vars, stat_vars, par_vars, tool_vars>>

\* lines 136-137: the retry loop ended without a break
Exhausted ==
    /\ pc = "else"
    /\ ans' = Some(ErrorSentinel(last_exc))
    /\ pc' = "append"
    /\ UNCHANGED <<config, qa_file, pairs, idx, attempt, last_exc, qa_results,
                   result_log, events, files>>
    /\ UNCHANGED <<cmp_vars, stat_vars, par_vars, tool_vars>>

\* a loop that keeps no record of a question whose retries are exhausted
AppendRecordDropsFailures ==
    /\ pc = "append"
    /\ qa_results' = IF Head(ans[1]) \in {"ERROR", "ERROR: "}
                     THEN qa_results
                     ELSE Append(qa_results,
                                 MakeRecord(Len(qa_results), pairs[idx + 1], ans[1]))
    /\ idx' = idx + 1
    /\ pc' = "for"
    /\ UNCHANGED <<config, qa_file, pairs, attempt, last_exc, ans, result_log,
                   events, files>>
    /\ UNCHANGED <<cmp_vars, stat_vars, par_vars, tool_vars>>

\* lines 142-149, then the next iteration of line 110
AppendRecord ==
    /\ pc = "append"
    /\ qa_results' = Append(qa_results, MakeRecord(idx, pairs[idx + 1], ans[1]))
    /\ idx' = idx + 1
    /\ pc' = "for"
    /\ UNCHANGED <<config, qa_file, pairs, attempt, last_exc, ans, result_log,
                   events, files>>
    /\ UNCHANGED <<cmp_vars, stat_vars, par_vars, tool_vars>>

\* lines 151-163: the loop is over; build the summary and return
FinishEval ==
    /\ pc = "for"
    /\ idx >= Len(pairs)
    /\ result_log' = Some([num_q |-> config.num_q])
    /\ pc' = "returned"
    /\ UNCHANGED <<config, qa_file, pairs, idx, attempt, last_exc, ans,
                   qa_results, events, files>>
    /\ UNCHANGED <<cmp_vars, stat_vars, par_vars, tool_vars>>

\* main, lines 185-188
WriteLog ==
    /\ pc = "returned"
    /\ files' = files \cup {"log"}
    /\ pc' = "log_written"
    /\ UNCHANGED <<config, qa_file, pairs, idx, attempt, last_exc, ans,
                   qa_results, result_log, events>>
    /\ UNCHANGED <<cmp_vars, stat_vars, par_vars, tool_vars>>

\* main, lines 189-193
WriteJson ==
    /\ pc = "log_written"
    /\ files' = files \cup {"json"}
    /\ pc' = "exit"
    /\ UNCHANGED <<config, qa_file, pairs, idx, attempt, last_exc, ans,
                   qa_results, result_log, events>>
    /\ UNCHANGED <<cmp_vars, stat_vars, par_vars, tool_vars>>

\* the process is killed from outside, wherever it is; nothing in main or
\* run_eval handles a signal or removes a file already written
Kill ==
    /\ pc \notin {"idle", "exit", "killed"}
    /\ pc' = "killed"
    /\ UNCHANGED <<config, qa_file, pairs, idx, attempt, last_exc, ans,
                   qa_results, result_log, events, files>>
    /\ UNCHANGED <<cmp_vars, stat_vars, par_vars, tool_vars>>

RunNext ==
    \/ StartEval
    \/ NextQuestion
    \/ ChatOk
    \/ ChatFail
    \/ Sleep
    \/ Exhausted
    \/ AppendRecord
    \/ FinishEval
    \/ WriteLog
    \/ WriteJson

\* a run that can be killed at any point
RunOrKillNext ==
    \/ StartEval
    \/ NextQuestion
    \/ ChatOk
    \/ ChatFail
    \/ Sleep
    \/ Exhausted
    \/ AppendRecord
    \/ FinishEval
    \/ WriteLog
    \/ WriteJson
    \/ Kill

(***************************************************************************)
(* Properties of the evaluation runner.                                    *)
(***************************************************************************)
\* how many events of one kind a question's log holds
CountKind(ev, kind) == Cardinality({i \in 1..Len(ev) : ev[i].kind = kind})

\* the backend calls made for a question
Calls(ev) == CountKind(ev, "ok") + CountKind(ev, "fail")

\* run_eval has returned
Returned == pc \in {"returned", "log_written", "exit"}

\* C1: run_eval returns exactly one record per input question, in input
\* order, and the record at position i carries question_num = i (0-based)
\* and the i-th question and reference answer, whatever the backend did;
\* while the run goes on, the records so far are those of the first idx
\* questions.
C1_OneRecordPerQuestion ==
    /\ Len(qa_results) = idx
    /\ \A k \in 1..Len(qa_results) :
           /\ qa_results[k].question_num = k - 1
           /\ qa_results[k].question = pairs[k].question
           /\ qa_results[k].correct_ans = pairs[k].answer
    /\ Returned => Len(qa_results) = Len(pairs)

\* a run of two questions has returned; the first exhausted its retries and
\* the second was answered
C1_Witness ==
    /\ Returned
    /\ Len(qa_results) = 2
    /\ CountKind(events[1], "ok") = 0
    /\ CountKind(events[1], "fail") >= 1
    /\ CountKind(events[2], "ok") = 1

\* C2: a question whose every allowed attempt failed has the record
\* "ERROR: <cause>" with the cause of its last failure, and the run goes on:
\* until main has written its output, some step is always possible.
C2_ExhaustedIsSentinel ==
    /\ \A k \in 1..Len(qa_results) :
           LET ev == events[k]
           IN  (CountKind(ev, "ok") = 0 /\ CountKind(ev, "fail") >= 1)
                   => /\ ev[Len(ev)].kind = "fail"
                      /\ qa_results[k].model_ans = <<"ERROR: ", ev[Len(ev)].exc>>
    /\ pc = "exit" \/ ENABLED RunNext

\* the first question failed twice with different causes, its record is
\* kept, and the run went on to answer the second question
C2_Witness ==
    /\ Len(qa_results) = 2
    /\ Len(events[1]) = 3
    /\ events[1][1].kind = "fail" /\ events[1][1].exc = "timeout"
    /\ events[1][3].kind = "fail" /\ events[1][3].exc = "refused"
    /\ qa_results[1].model_ans = <<"ERROR: ", "refused">>
    /\ CountKind(events[2], "ok") = 1

\* C3: for every question the backend is called at most max_retries times,
\* a successful call is the last event of the question, every sleep comes
\* right after a failed call and is followed by another call, and once the
\* question is recorded the sleeps number the failed calls, less one when
\* all the attempts failed.
C3_BoundedRetries ==
    \A k \in 1..Len(events) :
        LET ev == events[k]
            fails == CountKind(ev, "fail")
            oks == CountKind(ev, "ok")
            sleeps == CountKind(ev, "sleep")
        IN  /\ Calls(ev) <= config.max_retries
            /\ \A i \in 1..Len(ev) : ev[i].kind = "ok" => i = Len(ev)
            /\ \A i \in 1..Len(ev) :
                   ev[i].kind = "sleep" => i > 1 /\ ev[i - 1].kind = "fail"
            /\ k <= Len(qa_results) =>
                   /\ \A i \in 1..Len(ev) :
                          ev[i].kind = "sleep"
                              => i < Len(ev) /\ ev[i + 1].kind # "sleep"
                   /\ oks = 1 => sleeps = fails
                   /\ oks = 0 =>
                          /\ fails = config.max_retries
                          /\ sleeps = IF fails > 0 THEN fails - 1 ELSE 0

\* with two attempts allowed, one recorded question failed, slept and failed
\* again, and another failed, slept and was answered
C3_Witness ==
    /\ config.max_retries = 2
    /\ Len(qa_results) = 2
    /\ \E k \in 1..2 :
           /\ Len(events[k]) = 3
           /\ events[k][1].kind = "fail"
           /\ events[k][2].kind = "sleep"
           /\ events[k][3].kind = "fail"
    /\ \E k \in 1..2 :
           /\ Len(events[k]) = 3
           /\ events[k][1].kind = "fail"
           /\ events[k][2].kind = "sleep"
           /\ events[k][3].kind = "ok"

\* C21: the output of a run is written all or nothing: no output file
\* exists before every question has its record, and wherever the run is
\* killed either both of its files, the .log summary and the .json
\* answers, exist or neither does.
C21_OutputAllOrNothing ==
    /\ files # {} => /\ result_log # Missing
                     /\ Len(qa_results) = Len(pairs)
    /\ pc \in {"killed", "exit"} => files \in {{}, {"log", "json"}}

\* C25: the num_q of the run summary is the number of answer records the
\* run produced, also when the benchmark file holds fewer questions than
\* the num_q asked for.
C25_SummaryCountsRecords ==
    result_log # Missing => result_log[1].num_q = Len(qa_results)

(***************************************************************************)
(* calculate_mcnemar.py (the relaxed comparator) and calculate_b_c.py (the *)
(* strict comparator)                                                      *)
(***************************************************************************)
\* the question_num values a graded item can carry
QNums == {Missing, Some(0), Some(1)}

\* the grade values a graded item can carry
Grades == {Some(<<"T">>), Some(<<"F">>)}

GradedItems == [question_num : QNums, grade : Grades]

\* every sequence over S of length at most n
SeqsUpTo(S, n) == UNION {[1..k -> S] : k \in 0..n}

\* str.upper() on one token
Upper(t) == IF t = "t" THEN "T" ELSE IF t = "f" THEN "F" ELSE t

\* str(q.get('grade', '')): a missing grade reads as the empty text
GradeText(q) == Get(q.grade, <<>>)

\* the comparison without str.upper()
IsMatchCaseSensitive(q) == Strip(GradeText(q)) = <<"T">>

\* str(q.get('grade', '')).strip().upper() == 'T'
IsMatch(q) ==
    LET g == Strip(GradeText(q))
    IN  [i \in 1..Len(g) |-> Upper(g[i])] = <<"T">>

\* zip(results1, results2): pairs up to the shorter length
Zip(r1, r2) == [i \in 1..Min(Len(r1), Len(r2)) |-> <<r1[i], r2[i]>>]

\* a truncation that prints nothing
RelaxedLengthWarningSilent(r1, r2) == <<>>

\* calculate_mcnemar.py lines 75-76: the line printed when the counts differ
RelaxedLengthWarning(r1, r2) ==
    IF Len(r1) # Len(r2)
    THEN <<[kind |-> "count_mismatch", len1 |-> Len(r1), len2 |-> Len(r2)]>>
    ELSE <<>>

\* calculate_mcnemar.py lines 77-80: both lists cut to the shorter length
RelaxedTruncate(r1, r2) ==
    IF Len(r1) # Len(r2)
    THEN LET min_len == Min(Len(r1), Len(r2))
         IN  <<Prefix(r1, min_len), Prefix(r2, min_len)>>
    ELSE <<r1, r2>>

\* calculate_mcnemar.py lines 89-93: the identity check of one pair; its
\* body is "pass", so a mismatch prints nothing
RelaxedPairLog(q1, q2) ==
    IF q1.question_num # Missing /\ q2.question_num # Missing
    THEN IF q1.question_num # q2.question_num THEN <<>> ELSE <<>>
    ELSE <<>>

\* lines 95-105 (both files): the cell one pair is counted in
Cell(q1, q2) ==
    LET m1 == IsMatch(q1)
        m2 == IsMatch(q2)
    IN  IF m1 /\ m2 THEN "a"
        ELSE IF m1 /\ ~m2 THEN "b"
        ELSE IF ~m1 /\ m2 THEN "c"
        ELSE "d"

\* a count that lacks the final else branch
CountSkipsD(t, cell) == IF cell = "d" THEN t ELSE [t EXCEPT ![cell] = @ + 1]

\* one more pair counted
Count(t, cell) == [t EXCEPT ![cell] = @ + 1]

\* calculate_mcnemar.py lines 82-105: the loop over the pairs from pair k on,
\* with the counts t and the printed lines out so far
RECURSIVE RelaxedLoop(_, _, _, _)
RelaxedLoop(zipped, k, t, out) ==
    IF k > Len(zipped)
    THEN [counts |-> t, out |-> out]
    ELSE LET q1 == zipped[k][1]
             q2 == zipped[k][2]
         IN  RelaxedLoop(zipped, k + 1, Count(t, Cell(q1, q2)),
                         out \o RelaxedPairLog(q1, q2))

ZeroCounts == [a |-> 0, b |-> 0, c |-> 0, d |-> 0]

\* lines 107-112 (calculate_b_c.py line 57): the returned dictionary
MakeTable(t) ==
    [a |-> t.a, b |-> t.b, c |-> t.c, d |-> t.d,
     total |-> t.a + t.b + t.c + t.d]

\* calculate_mcnemar.py, calculate_mcnemar_values
RelaxedValues(r1, r2) ==
    LET cut  == RelaxedTruncate(r1, r2)
        done == RelaxedLoop(Zip(cut[1], cut[2]), 1, ZeroCounts,
                            RelaxedLengthWarning(r1, r2))
    IN  [error |-> None, table |-> Some(MakeTable(done.counts)),
         out |-> done.out]

\* calculate_b_c.py lines 37-38
StrictLengthCheck(r1, r2) ==
    IF Len(r1) # Len(r2) THEN "ValueError: result length mismatch" ELSE None

\* an identity check that, like the relaxed one, needs both keys present
StrictPairCheckBothPresent(q1, q2) ==
    IF /\ q1.question_num # Missing
       /\ q2.question_num # Missing
       /\ q1.question_num # q2.question_num
    THEN "ValueError: question_num mismatch"
    ELSE None

\* calculate_b_c.py lines 42-43: q1.get("question_num") != q2.get("question_num")
\* (a missing key reads as None on either side)
StrictPairCheck(q1, q2) ==
    IF q1.question_num # q2.question_num
    THEN "ValueError: question_num mismatch"
    ELSE None

\* calculate_b_c.py lines 40-55: the loop over the pairs from pair k on
RECURSIVE StrictLoop(_, _, _)
StrictLoop(zipped, k, t) ==
    IF k > Len(zipped)
    THEN [error |-> None, counts |-> t]
    ELSE LET q1 == zipped[k][1]
             q2 == zipped[k][2]
         IN  IF StrictPairCheck(q1, q2) # None
             THEN [error |-> StrictPairCheck(q1, q2), counts |-> t]
             ELSE StrictLoop(zipped, k + 1, Count(t, Cell(q1, q2)))

\* calculate_b_c.py, calculate_mcnemar_values
StrictValues(r1, r2) ==
    IF StrictLengthCheck(r1, r2) # None
    THEN [error |-> StrictLengthCheck(r1, r2), table |-> Missing, out |-> <<>>]
    ELSE LET done == StrictLoop(Zip(r1, r2), 1, ZeroCounts)
         IN  IF done.error # None
             THEN [error |-> done.error, table |-> Missing, out |-> <<>>]
             ELSE [error |-> None, table |-> Some(MakeTable(done.counts)),
                   out |-> <<>>]

\* abs()
Abs(x) == IF x < 0 THEN -x ELSE x

\* a statistic without abs()
StatisticNoAbs(b, c) ==
    IF b + c = 0
    THEN <<0, 1>>
    ELSE <<(b - c - 1) * (b - c - 1), b + c>>

\* a statistic without the continuity correction
StatisticNoCorrection(b, c) ==
    IF b + c = 0
    THEN <<0, 1>>
    ELSE <<(b - c) * (b - c), b + c>>

\* calculate_mcnemar_statistic (both files), as the fraction <<num, den>>
calculate_mcnemar_statistic(b, c) ==
    IF b + c = 0
    THEN <<0, 1>>
    ELSE <<(Abs(b - c) - 1) * (Abs(b - c) - 1), b + c>>

\* 1 - chi2.cdf(x, df=1) < 0.05 exactly when x exceeds the 0.95 quantile of
\* chi-squared with one degree of freedom, 3.841458820694124...
CriticalNum == 3841459

CriticalDen == 1000000

\* a test that takes the small statistics for the significant ones
SignificantInverted(stat) == stat[1] * CriticalDen < CriticalNum * stat[2]

\* main: p_value < 0.05
Significant(stat) == stat[1] * CriticalDen > CriticalNum * stat[2]

\* a decision that names the side with fewer wins
DecideLoser(stat, b, c) ==
    IF Significant(stat)
    THEN IF b < c THEN "model1 is better" ELSE "model2 is better"
    ELSE "not significant"

\* main lines 167-171 (calculate_b_c.py lines 85-89): the line printed
Decide(stat, b, c) ==
    IF Significant(stat)
    THEN IF b > c THEN "model1 is better" ELSE "model2 is better"
    ELSE "not significant"

CmpIdle ==
    /\ results1 = <<>>
    /\ results2 = <<>>
    /\ cmp_pc = "idle"
    /\ cmp_impl = None
    /\ table = Missing
    /\ cmp_error = None
    /\ cmp_log = <<>>
    /\ chi_sq = Missing
    /\ decision = None

CmpInit ==
    /\ results1 \in SeqsUpTo(GradedItems, MaxLen)
    /\ results2 \in SeqsUpTo(GradedItems, MaxLen)
    /\ cmp_pc = "start"
    /\ cmp_impl = None
    /\ table = Missing
    /\ cmp_error = None
    /\ cmp_log = <<>>
    /\ chi_sq = Missing
    /\ decision = None

\* the tokens of a grade text: both cases of T, another letter, whitespace
GradeTokens == {"T", "t", "F", "sp", "NL"}

\* what q.get('grade') finds: nothing, or a text of at most MaxGradeLen tokens
RichGrades == {Missing} \cup {Some(g) : g \in SeqsUpTo(GradeTokens, MaxGradeLen)}

\* two one-item graded sequences about the same question, with any grades
GradeInit ==
    /\ results1 \in {<<[question_num |-> Some(0), grade |-> g]>> :
                        g \in RichGrades}
    /\ results2 \in {<<[question_num |-> Some(0), grade |-> g]>> :
                        g \in RichGrades}
    /\ cmp_pc = "start"
    /\ cmp_impl = None
    /\ table = Missing
    /\ cmp_error = None
    /\ cmp_log = <<>>
    /\ chi_sq = Missing
    /\ decision = None

\* the graded sequences of one run: evaluate.py lines 142-149 number the
\* k records 0..k-1, and each is graded T or F
GradedRuns(n) ==
    UNION {{[i \in 1..k |-> [question_num |-> Some(i - 1), grade |-> g[i]]] :
               g \in [1..k -> Grades]} : k \in 0..n}

\* two graded runs of at most MaxItems questions each
AlignedInit ==
    /\ results1 \in GradedRuns(MaxItems)
    /\ results2 \in GradedRuns(MaxItems)
    /\ cmp_pc = "start"
    /\ cmp_impl = None
    /\ table = Missing
    /\ cmp_error = None
    /\ cmp_log = <<>>
    /\ chi_sq = Missing
    /\ decision = None

\* calculate_mcnemar.py main line 155
CompareRelaxed ==
    /\ cmp_pc = "start"
    /\ LET r == RelaxedValues(results1, results2)
       IN  /\ table' = r.table
           /\ cmp_error' = r.error
           /\ cmp_log' = r.out
    /\ cmp_impl' = "relaxed"
    /\ cmp_pc' = "compared"
    /\ UNCHANGED <<results1, results2, chi_sq, decision>>
    /\ UNCHANGED <<run_vars, stat_vars, par_vars, tool_vars>>

\* calculate_b_c.py main line 73: the table, or the exception that ends main
CompareStrict ==
    /\ cmp_pc = "start"
    /\ LET r == StrictValues(results1, results2)
       IN  /\ table' = r.table
           /\ cmp_error' = r.error
           /\ cmp_log' = r.out
           /\ cmp_pc' = IF r.error = None THEN "compared" ELSE "raised"
    /\ cmp_impl' = "strict"
    /\ UNCHANGED <<results1, results2, chi_sq, decision>>
    /\ UNCHANGED <<run_vars, stat_vars, par_vars, tool_vars>>

\* main lines 156-171 (calculate_b_c.py lines 74-89)
Report ==
    /\ cmp_pc = "compared"
    /\ chi_sq' = calculate_mcnemar_statistic(table[1].b, table[1].c)
    /\ decision' = Decide(calculate_mcnemar_statistic(table[1].b, table[1].c),
                          table[1].b, table[1].c)
    /\ cmp_pc' = "reported"
    /\ UNCHANGED <<results1, results2, cmp_impl, table, cmp_error, cmp_log>>
    /\ UNCHANGED <<run_vars, stat_vars, par_vars, tool_vars>>

CmpNext ==
    \/ CompareRelaxed
    \/ CompareStrict
    \/ Report

(***************************************************************************)
(* The statistic and the decision on their own, for any discordant counts. *)
(***************************************************************************)
StatIdle ==
    /\ stat_in = <<0, 0>>
    /\ stat_out = Missing

StatInit ==
    /\ stat_in \in (0..MaxCount) \X (0..MaxCount)
    /\ stat_out = Missing

\* main lines 156-171 (calculate_b_c.py lines 74-89) for b, c = stat_in
ApplyStatistic ==
    /\ stat_out = Missing
    /\ LET b == stat_in[1]
           c == stat_in[2]
       IN  stat_out' = Some([chi_sq |-> calculate_mcnemar_statistic(b, c),
                             decision |->
                                 Decide(calculate_mcnemar_statistic(b, c), b, c)])
    /\ UNCHANGED stat_in
    /\ UNCHANGED <<run_vars, cmp_vars, par_vars, tool_vars>>

StatNext == ApplyStatistic

(***************************************************************************)
(* Properties of the comparators.                                          *)
(***************************************************************************)
\* the aligned positions of the two loaded sequences
Aligned == 1..Min(Len(results1), Len(results2))

\* q.get("question_num") differs between the two items
QNumDiffers(q1, q2) == q1.question_num # q2.question_num

\* both items carry a question_num and the two differ
QNumMismatch(q1, q2) ==
    /\ q1.question_num # Missing
    /\ q2.question_num # Missing
    /\ q1.question_num # q2.question_num

\* C4: a returned table has a + b + c + d = min(len1, len2) = total, and
\* each cell counts exactly the aligned positions of its kind.
C4_TableCountsEveryPair ==
    table # Missing =>
        LET t == table[1]
            both(m1, m2) == Cardinality({i \in Aligned :
                                /\ IsMatch(results1[i]) = m1
                                /\ IsMatch(results2[i]) = m2})
        IN  /\ t.a + t.b + t.c + t.d = Min(Len(results1), Len(results2))
            /\ t.total = t.a + t.b + t.c + t.d
            /\ t.a = both(TRUE, TRUE)
            /\ t.b = both(TRUE, FALSE)
            /\ t.c = both(FALSE, TRUE)
            /\ t.d = both(FALSE, FALSE)

\* the relaxed comparator returned a table for sequences of lengths 2 and 1,
\* and the one pair is a both-wrong pair
C4_Witness ==
    /\ cmp_impl = "relaxed"
    /\ Len(results1) = 2
    /\ Len(results2) = 1
    /\ table # Missing
    /\ table[1].d = 1
    /\ table[1].total = 1

\* C5: the statistic is 0 when b + c = 0 and ((|b - c| - 1)^2) / (b + c)
\* otherwise, and it is the same for (b, c) and (c, b).
C5_StatisticSymmetric ==
    stat_out # Missing =>
        LET b == stat_in[1]
            c == stat_in[2]
            x == stat_out[1].chi_sq
            gap == Max(b, c) - Min(b, c)
        IN  /\ x[2] > 0
            /\ b + c = 0 => x[1] = 0
            /\ b + c # 0 => x[1] * (b + c) = (gap * gap - 2 * gap + 1) * x[2]
            /\ FracEq(x, calculate_mcnemar_statistic(c, b))

\* the statistic was computed for b = 2, c = 10 and is 49/12
C5_Witness ==
    /\ stat_in = <<2, 10>>
    /\ stat_out # Missing
    /\ FracEq(stat_out[1].chi_sq, <<49, 12>>)

C8_StrictRejectsMisalignment ==
    cmp_impl = "strict" =>
        /\ (\E i \in Aligned : QNumDiffers(results1[i], results2[i])) =>
               /\ cmp_pc = "raised"
               /\ cmp_error # None
               /\ table = Missing
               /\ chi_sq = Missing
               /\ decision = None
        /\ table # Missing =>
               \A i \in Aligned : ~QNumDiffers(results1[i], results2[i])

\* the strict comparator met two sequences of length 2 that agree on the
\* first pair and differ on the second, and raised the mismatch error
C8_Witness ==
    /\ cmp_impl = "strict"
    /\ Len(results1) = 2
    /\ Len(results2) = 2
    /\ ~QNumDiffers(results1[1], results2[1])
    /\ QNumDiffers(results1[2], results2[2])
    /\ cmp_error = "ValueError: question_num mismatch"

\* C9: a comparison with an empty sequence fails with an error; it yields
\* no table, no statistic and no decision.
C9_EmptyInputFails ==
    (cmp_pc # "start" /\ (results1 = <<>> \/ results2 = <<>>)) =>
        /\ cmp_error # None
        /\ table = Missing
        /\ chi_sq = Missing
        /\ decision = None

\* C10: the relaxed comparator prints one warning for every aligned pair
\* whose question_num values are both present and differ, and still counts
\* the pair.
C10_MismatchesLogged ==
    (cmp_impl = "relaxed" /\ cmp_pc # "start") =>
        /\ Cardinality({i \in 1..Len(cmp_log) :
                           cmp_log[i].kind = "question_num_mismatch"})
               = Cardinality({i \in Aligned :
                                 QNumMismatch(results1[i], results2[i])})
        /\ table # Missing
        /\ table[1].total = Min(Len(results1), Len(results2))

\* the grade is present and is one T, in either case, among whitespace only
ReadsAsT(q) ==
    /\ q.grade # Missing
    /\ \E i \in 1..Len(q.grade[1]) :
           /\ q.grade[1][i] \in {"T", "t"}
           /\ \A j \in 1..Len(q.grade[1]) :
                  j # i => q.grade[1][j] \in {"sp", "NL"}

\* C11: in both comparators an item counts as a match exactly when its grade
\* is present and, once the surrounding whitespace is trimmed and the case
\* is ignored, is the single letter T; every other grade, a missing one
\* included, counts as no match.  (The one pair compared lands in the cell
\* its two outcomes select.)
C11_MatchIffTrimmedT ==
    (cmp_pc \in {"compared", "reported"}) =>
        LET m1 == ReadsAsT(results1[1])
            m2 == ReadsAsT(results2[1])
            t == table[1]
        IN  /\ cmp_impl \in {"relaxed", "strict"}
            /\ t.a = (IF m1 /\ m2 THEN 1 ELSE 0)
            /\ t.b = (IF m1 /\ ~m2 THEN 1 ELSE 0)
            /\ t.c = (IF ~m1 /\ m2 THEN 1 ELSE 0)
            /\ t.d = (IF ~m1 /\ ~m2 THEN 1 ELSE 0)

\* the strict comparator took " t" for a match and a missing grade for none
C11_Witness ==
    /\ cmp_pc = "compared"
    /\ cmp_impl = "strict"
    /\ results1[1].grade = Some(<<"sp", "t">>)
    /\ results2[1].grade = Missing
    /\ table[1].b = 1

\* two sequences of four items whose pairs show each of the four outcomes
\* (match, match), (match, no match), (no match, match), (no match, no
\* match) once
FourOutcomes ==
    /\ Len(results1) = 4
    /\ Len(results2) = 4
    /\ {<<results1[i].grade = Some(<<"T">>), results2[i].grade = Some(<<"T">>)>> :
           i \in 1..4} = BOOLEAN \X BOOLEAN

\* C12 as stated: two four-item sequences showing each outcome once give
\* a = b = c = d = 1, a statistic of 0 (so a p-value of 1) and the decision
\* that the two are indistinguishable.
C12_BalancedGivesZero ==
    (cmp_pc = "reported" /\ FourOutcomes) =>
        /\ table[1].a = 1 /\ table[1].b = 1
        /\ table[1].c = 1 /\ table[1].d = 1
        /\ FracEq(chi_sq, <<0, 1>>)
        /\ decision = "not significant"

\* C12 as amended: two four-item sequences showing each outcome once give
\* a = b = c = d = 1, a statistic of (|1 - 1| - 1)^2 / (1 + 1) = 1/2, which
\* is below the critical value (the p-value is above 0.05, not 1), and the
\* decision that the two are indistinguishable.
C12_BalancedGivesHalf ==
    (cmp_pc = "reported" /\ FourOutcomes) =>
        /\ table[1].a = 1 /\ table[1].b = 1
        /\ table[1].c = 1 /\ table[1].d = 1
        /\ FracEq(chi_sq, <<1, 2>>)
        /\ chi_sq[1] * 1000 < 3841 * chi_sq[2]
        /\ decision = "not significant"

\* the strict comparator reported on T,T,F,F against T,F,T,F
C12_Witness ==
    /\ cmp_pc = "reported"
    /\ cmp_impl = "strict"
    /\ [i \in 1..Len(results1) |-> results1[i].grade[1][1]] = <<"T", "T", "F", "F">>
    /\ [i \in 1..Len(results2) |-> results2[i].grade[1][1]] = <<"T", "F", "T", "F">>
    /\ table[1].b = 1 /\ table[1].c = 1
    /\ decision = "not significant"

\* C13: for b = 10 and c = 2 the statistic is (|10 - 2| - 1)^2 / (10 + 2) =
\* 49/12, which exceeds the critical value 3.841, so the difference is
\* significant, and the winner is the first model, the side that owns b.
C13_TenTwoFirstWins ==
    (stat_in = <<10, 2>> /\ stat_out # Missing) =>
        /\ FracEq(stat_out[1].chi_sq, <<49, 12>>)
        /\ stat_out[1].chi_sq[1] * 1000 > 3841 * stat_out[1].chi_sq[2]
        /\ stat_out[1].decision = "model1 is better"

\* the statistic was computed and a winner named for b = 10, c = 2
C13_Witness ==
    /\ stat_in[1] = 10
    /\ stat_in[2] = 2
    /\ stat_out # Missing
    /\ stat_out[1].decision # "not significant"

\* C23: whenever the statistic exceeds the critical value 3.841 and a
\* winner is named, b and c differ: model1 is named only when b > c and
\* model2 only when c > b, and a tie b = c is never reported as a win.
C23_SignificantImpliesUnequal ==
    stat_out # Missing =>
        LET b == stat_in[1]
            c == stat_in[2]
            stat == stat_out[1].chi_sq
            won == stat_out[1].decision
        IN  /\ stat[1] * 1000 > 3841 * stat[2] => b # c
            /\ won = "model1 is better" => b > c
            /\ won = "model2 is better" => c > b
            /\ b = c => won = "not significant"

\* with no win for the first model and six for the second, the second was
\* named the winner
C23_Witness ==
    /\ stat_in = <<0, 6>>
    /\ stat_out # Missing
    /\ stat_out[1].decision = "model2 is better"

(***************************************************************************)
(* pareto_analysis.py                                                      *)
(***************************************************************************)
Langs == <<"en", "no">>

Seps == {"_", "-", ":"}

\* the language suffixes a log file's stem can end in (none: <<>>)
StemSuffixes == {<<>>, <<"-", "en">>, <<"_", "no">>}

\* the duration_s values of a log file
Durations == {3600, 7200}

\* the num_gpus values of a log file
GpuCounts == {Missing, Some(2)}

\* the accuracy values of a log file, fractions of 1
Accuracies == {<<1, 2>>, <<4, 5>>}

SecondsPerHour == 3600

Percent == 100

\* the k-th log file of the sorted directory: its stem starts with its own
\* base name, so stems are distinct and sorted
LogFilesAt(k) ==
    [stem : {<<k>> \o suf : suf \in StemSuffixes},
     duration_s : Durations, num_gpus : GpuCounts, accuracy : Accuracies]

\* a k-th file that load_log raises on: its text is not JSON, though its
\* name is that of an English run
BadLogFilesAt(k) == {[stem |-> <<k, "-", "en">>, malformed |-> TRUE]}

\* str.endswith
EndsWith(s, suf) ==
    /\ Len(s) >= Len(suf)
    /\ SubSeq(s, Len(s) - Len(suf) + 1, Len(s)) = suf

\* load_log lines 76-86: the stem without its language suffix
ModelBase(stem) ==
    LET hits == {<<sep, lang>> : sep \in Seps, lang \in {"en", "no"}}
        cut  == {suf \in hits : EndsWith(stem, suf) /\ Len(stem) > Len(suf)}
    IN  IF cut = {} THEN stem
        ELSE SubSeq(stem, 1, Len(stem) - 2)

\* load_log line 88: data.get('num_gpus', 1)
NumGpus(data) == Get(data.num_gpus, 1)

\* a gpu_hours that leaves num_gpus out
LoadLogWallClock(f) ==
    [model      |-> f.stem,
     model_base |-> ModelBase(f.stem),
     hours      |-> <<f.duration_s, SecondsPerHour>>,
     gpu_hours  |-> <<f.duration_s, SecondsPerHour>>,
     accuracy   |-> <<f.accuracy[1] * Percent, f.accuracy[2]>>,
     num_gpus   |-> NumGpus(f)]

\* load_log lines 90-99
load_log(f) ==
    [model      |-> f.stem,
     model_base |-> ModelBase(f.stem),
     hours      |-> <<f.duration_s, SecondsPerHour>>,
     gpu_hours  |-> <<f.duration_s * NumGpus(f), SecondsPerHour>>,
     accuracy   |-> <<f.accuracy[1] * Percent, f.accuracy[2]>>,
     num_gpus   |-> NumGpus(f)]

\* a dominance that a tie on accuracy does not stop
DominatesOnTie(m2, m1) ==
    /\ FracLess(m2.gpu_hours, m1.gpu_hours)
    /\ ~FracLess(m2.accuracy, m1.accuracy)

\* a dominance that needs only one axis to be better
DominatesEitherAxis(m2, m1) ==
    FracLess(m2.gpu_hours, m1.gpu_hours) \/ FracLess(m1.accuracy, m2.accuracy)

\* a dominance by the cheaper and less accurate
DominatesLessAccurate(m2, m1) ==
    FracLess(m2.gpu_hours, m1.gpu_hours) /\ FracLess(m2.accuracy, m1.accuracy)

\* is_pareto_optimal line 112: m2 dominates m1
Dominates(m2, m1) ==
    FracLess(m2.gpu_hours, m1.gpu_hours) /\ FracLess(m1.accuracy, m2.accuracy)

\* is_pareto_optimal lines 108-114: the inner loop from j on (i, j 1-based)
RECURSIVE Dominated(_, _, _)
Dominated(models, i, j) ==
    IF j > Len(models) THEN FALSE
    ELSE IF i # j /\ Dominates(models[j], models[i]) THEN TRUE
    ELSE Dominated(models, i, j + 1)

\* an inner loop that starts at the second run of the list
ParetoOptimalFromSecond(models) ==
    [i \in 1..Len(models) |-> ~Dominated(models, i, 2)]

\* is_pareto_optimal
is_pareto_optimal(models) ==
    [i \in 1..Len(models) |-> ~Dominated(models, i, 1)]

\* main lines 144-145
HasLangSuffix(name, lang) == \E sep \in Seps : EndsWith(name, <<sep, lang>>)

\* [m for m in models if keep(m)]
RECURSIVE SelectLang(_, _)
SelectLang(models, lang) ==
    IF models = <<>> THEN <<>>
    ELSE IF HasLangSuffix(Head(models).model, lang)
         THEN <<Head(models)>> \o SelectLang(Tail(models), lang)
         ELSE SelectLang(Tail(models), lang)

\* a total over the runs of the two language groups only
RECURSIVE SumGpuHoursOfGroups(_)
SumGpuHoursOfGroups(models) ==
    IF models = <<>> THEN <<0, 1>>
    ELSE IF \E l \in {"en", "no"} :
                \E sep \in {"_", "-", ":"} :
                    /\ Len(models[Len(models)].model) >= 2
                    /\ SubSeq(models[Len(models)].model,
                              Len(models[Len(models)].model) - 1,
                              Len(models[Len(models)].model)) = <<sep, l>>
         THEN FracAdd(SumGpuHoursOfGroups(SubSeq(models, 1, Len(models) - 1)),
                      models[Len(models)].gpu_hours)
         ELSE SumGpuHoursOfGroups(SubSeq(models, 1, Len(models) - 1))

\* main line 153: sum(m['gpu_hours'] for m in all_models), from int 0
RECURSIVE SumGpuHours(_)
SumGpuHours(models) ==
    IF models = <<>> THEN <<0, 1>>
    ELSE FracAdd(SumGpuHours(SubSeq(models, 1, Len(models) - 1)),
                 models[Len(models)].gpu_hours)

ParIdle ==
    /\ log_files = <<>>
    /\ par_pc = "idle"
    /\ all_models = <<>>
    /\ par_groups = Missing
    /\ par_flags = Missing
    /\ par_lang = 0
    /\ par_total = Missing
    /\ par_titles = Missing
    /\ par_log = <<>>

ParInit ==
    /\ par_pc = "start"
    /\ log_files = <<>>
    /\ all_models = <<>>
    /\ par_groups = Missing
    /\ par_flags = Missing
    /\ par_lang = 0
    /\ par_total = Missing
    /\ par_titles = Missing
    /\ par_log = <<>>

\* main lines 135-139, one iteration over a file that loads
LoadOne ==
    /\ par_pc = "start"
    /\ Len(log_files) < MaxLogs
    /\ \E f \in LogFilesAt(Len(log_files) + 1) :
           /\ log_files' = Append(log_files, f)
           /\ all_models' = Append(all_models, load_log(f))
    /\ UNCHANGED <<par_pc, par_groups, par_flags, par_lang, par_total,
                   par_titles, par_log>>
    /\ UNCHANGED <<run_vars, cmp_vars, stat_vars, tool_vars>>

\* main lines 135-139, one iteration over a file load_log raises on: the
\* exception is caught, a "skip" line printed, and the loop goes on
SkipOne ==
    /\ par_pc = "start"
    /\ Len(log_files) < MaxLogs
    /\ \E f \in BadLogFilesAt(Len(log_files) + 1) :
           /\ log_files' = Append(log_files, f)
           /\ par_log' = Append(par_log, [kind |-> "skip", stem |-> f.stem])
    /\ UNCHANGED <<par_pc, all_models, par_groups, par_flags, par_lang,
                   par_total, par_titles>>
    /\ UNCHANGED <<run_vars, cmp_vars, stat_vars, tool_vars>>

\* main lines 141-154: the directory is exhausted; split by language and sum
Split ==
    /\ par_pc = "start"
    /\ par_groups' = [l \in {"en", "no"} |-> SelectLang(all_models, l)]
    /\ par_flags' = [l \in {"en", "no"} |-> Missing]
    /\ par_total' = SumGpuHours(all_models)
    /\ par_titles' = [l \in {"en", "no"} |-> Missing]
    /\ par_lang' = 1
    /\ par_pc' = "plot"
    /\ UNCHANGED <<log_files, all_models, par_log>>
    /\ UNCHANGED <<run_vars, cmp_vars, stat_vars, tool_vars>>

\* main lines 157-162 and create_pareto_plot line 168: one language's plot
PlotGroup ==
    /\ par_pc = "plot"
    /\ par_groups[Langs[par_lang]] # <<>>
    /\ par_flags' = [par_flags EXCEPT
                        ![Langs[par_lang]] =
                            Some(is_pareto_optimal(par_groups[Langs[par_lang]]))]
    /\ par_titles' = [par_titles EXCEPT ![Langs[par_lang]] = Some(par_total)]
    /\ par_lang' = par_lang + 1
    /\ par_pc' = IF par_lang = Len(Langs) THEN "done" ELSE "plot"
    /\ UNCHANGED <<log_files, all_models, par_groups, par_total, par_log>>
    /\ UNCHANGED <<run_vars, cmp_vars, stat_vars, tool_vars>>

\* main lines 158-159: an empty group is passed over
SkipGroup ==
    /\ par_pc = "plot"
    /\ par_groups[Langs[par_lang]] = <<>>
    /\ par_lang' = par_lang + 1
    /\ par_pc' = IF par_lang = Len(Langs) THEN "done" ELSE "plot"
    /\ UNCHANGED <<log_files, all_models, par_groups, par_flags, par_total,
                   par_titles, par_log>>
    /\ UNCHANGED <<run_vars, cmp_vars, stat_vars, tool_vars>>

ParNext ==
    \/ LoadOne
    \/ SkipOne
    \/ Split
    \/ PlotGroup
    \/ SkipGroup

(***************************************************************************)
(* Properties of the frontier engine.                                      *)
(***************************************************************************)
\* the loaded runs of one language
RunsOf(lang) ==
    {all_models[k] : k \in {n \in 1..Len(all_models) :
                                HasLangSuffix(all_models[n].model, lang)}}

\* C6: a point of a group is flagged optimal exactly when no other loaded
\* run of the same language has strictly lower gpu_hours and strictly higher
\* accuracy; a tie on either axis does not dominate, and runs of another
\* language do not count.  (Runs are told apart by their file stems.)
C6_FlagIffNotDominated ==
    \A l \in {"en", "no"} :
        (par_pc \in {"plot", "done"} /\ par_flags[l] # Missing) =>
            LET group == par_groups[l]
                flags == par_flags[l][1]
            IN  /\ Len(flags) = Len(group)
                /\ {group[i] : i \in 1..Len(group)} = RunsOf(l)
                /\ \A i \in 1..Len(group) :
                       flags[i] <=>
                           ~\E y \in RunsOf(l) :
                                /\ y.model # group[i].model
                                /\ FracLess(y.gpu_hours, group[i].gpu_hours)
                                /\ FracLess(group[i].accuracy, y.accuracy)

\* the English group was flagged: one of its points is optimal although an
\* English peer is cheaper at the same accuracy and a Norwegian run is both
\* cheaper and more accurate
C6_Witness ==
    /\ par_pc = "done"
    /\ par_flags["en"] # Missing
    /\ \E i \in 1..Len(par_groups["en"]) :
           LET x == par_groups["en"][i]
           IN  /\ par_flags["en"][1][i]
               /\ \E y \in RunsOf("en") :
                      /\ FracLess(y.gpu_hours, x.gpu_hours)
                      /\ FracEq(y.accuracy, x.accuracy)
               /\ \E z \in RunsOf("no") :
                      /\ FracLess(z.gpu_hours, x.gpu_hours)
                      /\ FracLess(x.accuracy, z.accuracy)

\* the log file a loaded run was read from
FileOf(m) == CHOOSE f \in {log_files[k] : k \in 1..Len(log_files)} :
                 f.stem = m.model

\* the num_gpus of a log file, 1 when it carries none
GpusOf(f) == IF f.num_gpus = Missing THEN 1 ELSE f.num_gpus[1]

\* C18: the gpu_hours of a loaded run is duration_s / 3600 times num_gpus,
\* with num_gpus taken as 1 when the log carries none; it is num_gpus times
\* the gpu_hours the same log gives without a num_gpus; and a point of a
\* group is flagged optimal exactly when no other point of the group has a
\* lower duration_s * num_gpus and a higher accuracy, whatever the
\* durations alone are.
C18_GpuHoursIsHoursTimesGpus ==
    /\ \A k \in 1..Len(all_models) :
           LET m == all_models[k]
               f == FileOf(m)
               one == load_log([f EXCEPT !.num_gpus = Missing])
           IN  /\ m.gpu_hours[1] * 3600 = f.duration_s * GpusOf(f) * m.gpu_hours[2]
               /\ one.gpu_hours[1] * 3600 = f.duration_s * one.gpu_hours[2]
               /\ FracEq(m.gpu_hours,
                         <<GpusOf(f) * one.gpu_hours[1], one.gpu_hours[2]>>)
    /\ \A l \in {"en", "no"} :
           (par_pc \in {"plot", "done"} /\ par_flags[l] # Missing) =>
               LET group == par_groups[l]
               IN  \A i \in 1..Len(group) :
                       par_flags[l][1][i] <=>
                           ~\E j \in 1..Len(group) :
                                LET fi == FileOf(group[i])
                                    fj == FileOf(group[j])
                                IN  /\ fj.duration_s * GpusOf(fj)
                                           < fi.duration_s * GpusOf(fi)
                                    /\ FracLess(fi.accuracy, fj.accuracy)

\* an English run on one GPU was flagged optimal although another English
\* run is more accurate and took half the wall-clock time: on two GPUs, it
\* cost as many gpu_hours
C18_Witness ==
    /\ par_pc = "done"
    /\ par_flags["en"] # Missing
    /\ \E i, j \in 1..Len(par_groups["en"]) :
           LET x == par_groups["en"][i]
               y == par_groups["en"][j]
           IN  /\ par_flags["en"][1][i]
               /\ FileOf(x).num_gpus = Missing
               /\ FileOf(y).num_gpus = Some(2)
               /\ FracLess(y.hours, x.hours)
               /\ FracLess(x.accuracy, y.accuracy)
               /\ FracEq(x.gpu_hours, y.gpu_hours)
               /\ FracEq(x.gpu_hours, x.hours)

\* the sum of duration_s * num_gpus over the first k log files that loaded
RECURSIVE GpuSeconds(_)
GpuSeconds(k) ==
    IF k = 0 THEN 0
    ELSE GpuSeconds(k - 1)
             + (IF \E m \in {all_models[n] : n \in 1..Len(all_models)} :
                       m.model = log_files[k].stem
                THEN log_files[k].duration_s * GpusOf(log_files[k])
                ELSE 0)

\* C19: the total gpu_hours is the sum over every run that loaded, those
\* of both language groups and those whose name carries no language suffix
\* alike (a file that did not load adds nothing), and every group that is
\* plotted is handed this same total.
C19_TotalOverAllRuns ==
    par_total # Missing =>
        /\ par_total[1] * 3600 = GpuSeconds(Len(log_files)) * par_total[2]
        /\ \A l \in {"en", "no"} :
               /\ par_flags[l] # Missing <=> par_titles[l] # Missing
               /\ par_titles[l] # Missing => par_titles[l] = Some(par_total)

\* both groups were plotted with a total that also counts a run without a
\* language suffix
C19_Witness ==
    /\ par_pc = "done"
    /\ par_titles["en"] # Missing
    /\ par_titles["no"] # Missing
    /\ par_titles["en"] = par_titles["no"]
    /\ \E k \in 1..Len(all_models) :
           /\ Len(all_models[k].model) = 1
           /\ FracLess(FracAdd(SumGpuHours(par_groups["en"]),
                               SumGpuHours(par_groups["no"])),
                       par_titles["en"][1])

(***************************************************************************)
(* is_pareto_optimal on its own, for any list of runs.                     *)
(***************************************************************************)
\* the accuracy values, in percent, of the runs handed over
AccLevels == {50, 65, 80}

\* the two fields of a run that is_pareto_optimal reads
Points ==
    [gpu_hours : {<<h, 1>> : h \in 1..MaxHours},
     accuracy : {<<a, 1>> : a \in AccLevels}]

\* the list without its p-th run
Without(models, p) ==
    [i \in 1..(Len(models) - 1) |-> IF i < p THEN models[i] ELSE models[i + 1]]

FrIdle ==
    /\ fr_group = <<>>
    /\ fr_flags = Missing
    /\ fr_frontier = <<>>
    /\ fr_drop = 0
    /\ fr_rest_flags = Missing

FrInit ==
    /\ fr_group \in SeqsUpTo(Points, MaxGroup)
    /\ fr_flags = Missing
    /\ fr_frontier = <<>>
    /\ fr_drop = 0
    /\ fr_rest_flags = Missing

\* create_pareto_plot lines 204-205: [m for m, p in zip(models, pareto) if p]
RECURSIVE SelectOptimal(_, _)
SelectOptimal(models, flags) ==
    IF models = <<>> THEN <<>>
    ELSE IF Head(flags)
         THEN <<Head(models)>> \o SelectOptimal(Tail(models), Tail(flags))
         ELSE SelectOptimal(Tail(models), Tail(flags))

\* sorted(models, key=lambda x: x['gpu_hours']): the sort is stable, runs
\* of equal gpu_hours keep the order they came in
RECURSIVE SortedByGpuHours(_)
SortedByGpuHours(models) ==
    IF models = <<>> THEN <<>>
    ELSE LET rest == SortedByGpuHours(SubSeq(models, 1, Len(models) - 1))
             m == models[Len(models)]
             k == Cardinality({i \in 1..Len(rest) :
                                  ~FracLess(m.gpu_hours, rest[i].gpu_hours)})
         IN  SubSeq(rest, 1, k) \o <<m>> \o SubSeq(rest, k + 1, Len(rest))

\* create_pareto_plot lines 168 and 204-205: the flags of the whole list
\* and the frontier drawn from them
Flag ==
    /\ fr_flags = Missing
    /\ fr_flags' = Some(is_pareto_optimal(fr_group))
    /\ fr_frontier' = SortedByGpuHours(
                          SelectOptimal(fr_group, is_pareto_optimal(fr_group)))
    /\ UNCHANGED <<fr_group, fr_drop, fr_rest_flags>>
    /\ UNCHANGED <<run_vars, cmp_vars, stat_vars, par_vars, bf_vars, bl_vars, sp_vars>>

\* is_pareto_optimal(models) again, for the list without one of its runs
FlagWithout ==
    /\ fr_flags # Missing
    /\ fr_drop = 0
    /\ \E p \in 1..Len(fr_group) :
           /\ fr_drop' = p
           /\ fr_rest_flags' = Some(is_pareto_optimal(Without(fr_group, p)))
    /\ UNCHANGED <<fr_group, fr_flags, fr_frontier>>
    /\ UNCHANGED <<run_vars, cmp_vars, stat_vars, par_vars, bf_vars, bl_vars, sp_vars>>

FrNext ==
    \/ Flag
    \/ FlagWithout

(***************************************************************************)
(* Properties of is_pareto_optimal.                                        *)
(***************************************************************************)
\* a run of h gpu-hours and a percent accuracy
Run(h, a) == [gpu_hours |-> <<h, 1>>, accuracy |-> <<a, 1>>]

\* the list holds the runs (1, 50), (2, 80) and (3, 80), in any order
ThreeRuns ==
    /\ Len(fr_group) = 3
    /\ {fr_group[i] : i \in 1..3} = {Run(1, 50), Run(2, 80), Run(3, 80)}

\* C14 as stated: of the runs (1, 50), (2, 80), (3, 80) in one group, the
\* run (3, 80) is flagged not optimal, being dominated by (2, 80), and the
\* runs (1, 50) and (2, 80) are flagged optimal.
C14_TieIsDominated ==
    (ThreeRuns /\ fr_flags # Missing) =>
        \A i \in 1..3 : fr_flags[1][i] <=> fr_group[i] # Run(3, 80)

\* C14 as amended: of the runs (1, 50), (2, 80), (3, 80) in one group, all
\* three are flagged optimal: (2, 80) is cheaper than (3, 80) but not more
\* accurate, so it does not dominate it.
C14_TieIsNotDominated ==
    (ThreeRuns /\ fr_flags # Missing) =>
        \A i \in 1..3 : fr_flags[1][i]

\* the three runs were flagged, in the order of the claim
C14_Witness ==
    /\ fr_group = <<Run(1, 50), Run(2, 80), Run(3, 80)>>
    /\ fr_flags # Missing
    /\ fr_flags[1][3]

\* C15: in every non-empty list, every run of minimum gpu_hours is flagged
\* optimal and every run of maximum accuracy is flagged optimal, ties
\* included.
C15_ExtremesAreOptimal ==
    fr_flags # Missing =>
        \A i \in 1..Len(fr_group) :
            /\ (\A j \in 1..Len(fr_group) :
                    ~FracLess(fr_group[j].gpu_hours, fr_group[i].gpu_hours))
                   => fr_flags[1][i]
            /\ (\A j \in 1..Len(fr_group) :
                    ~FracLess(fr_group[i].accuracy, fr_group[j].accuracy))
                   => fr_flags[1][i]

\* two cheapest runs of different accuracy and a third, most accurate and
\* dearer, were all flagged optimal
C15_Witness ==
    /\ fr_flags # Missing
    /\ Len(fr_group) = 3
    /\ fr_group[1].gpu_hours = fr_group[2].gpu_hours
    /\ FracLess(fr_group[1].accuracy, fr_group[2].accuracy)
    /\ FracLess(fr_group[2].gpu_hours, fr_group[3].gpu_hours)
    /\ FracLess(fr_group[2].accuracy, fr_group[3].accuracy)
    /\ fr_flags[1] = <<TRUE, TRUE, TRUE>>

\* C16: when a run flagged not optimal is taken out of the list,
\* is_pareto_optimal flags the remaining runs exactly as it flagged them in
\* the whole list.
C16_DroppingDominatedKeepsFlags ==
    (fr_rest_flags # Missing /\ ~fr_flags[1][fr_drop]) =>
        /\ Len(fr_rest_flags[1]) = Len(fr_group) - 1
        /\ \A i \in 1..Len(fr_group) :
               /\ i < fr_drop => fr_rest_flags[1][i] = fr_flags[1][i]
               /\ i > fr_drop => fr_rest_flags[1][i - 1] = fr_flags[1][i]

\* a dominated run that itself dominated a third run was taken out, and the
\* third run stayed not optimal
C16_Witness ==
    /\ fr_rest_flags # Missing
    /\ fr_group = <<Run(2, 65), Run(1, 80), Run(3, 50)>>
    /\ fr_drop = 1
    /\ fr_flags[1] = <<FALSE, TRUE, FALSE>>
    /\ fr_rest_flags[1] = <<TRUE, FALSE>>

\* C24: the runs flagged optimal, listed by ascending gpu_hours as the
\* frontier is drawn, have non-decreasing accuracy: of two optimal runs
\* the one with strictly fewer gpu_hours is never the more accurate.  (The
\* frontier holds exactly the flagged runs, cheapest first.)
C24_FrontierAccuracyRises ==
    fr_flags # Missing =>
        /\ \A i, j \in 1..Len(fr_group) :
               (/\ fr_flags[1][i]
                /\ fr_flags[1][j]
                /\ FracLess(fr_group[i].gpu_hours, fr_group[j].gpu_hours))
                   => ~FracLess(fr_group[j].accuracy, fr_group[i].accuracy)
        /\ Len(fr_frontier) = Cardinality({i \in 1..Len(fr_group) : fr_flags[1][i]})
        /\ {fr_frontier[i] : i \in 1..Len(fr_frontier)}
               = {fr_group[i] : i \in {n \in 1..Len(fr_group) : fr_flags[1][n]}}
        /\ \A i, j \in 1..Len(fr_frontier) :
               i < j =>
                   /\ ~FracLess(fr_frontier[j].gpu_hours, fr_frontier[i].gpu_hours)
                   /\ FracLess(fr_frontier[i].gpu_hours, fr_frontier[j].gpu_hours)
                          => ~FracLess(fr_frontier[j].accuracy,
                                       fr_frontier[i].accuracy)

\* three optimal runs handed over dearest first were listed cheapest first,
\* each more accurate than the one before
C24_Witness ==
    /\ fr_flags # Missing
    /\ fr_group = <<Run(3, 80), Run(1, 50), Run(2, 65)>>
    /\ fr_flags[1] = <<TRUE, TRUE, TRUE>>
    /\ fr_frontier = <<Run(1, 50), Run(2, 65), Run(3, 80)>>

(***************************************************************************)
(* add_gpu_count.py                                                        *)
(***************************************************************************)
\* GPU_COUNTS, keyed by the model name as a one-token text
GPU_COUNTS ==
    (<<"deepseek-r1:671b">> :> 3) @@ (<<"llama3.1:405b">> :> 4) @@
    (<<"qwen2.5:230b">> :> 2) @@ (<<"qwen3:235b">> :> 2) @@
    (<<"gpt-oss:120b">> :> 2)

\* update_log_files: default_num_gpus, left at its default
DefaultNumGpus == 1

\* the stems of the directory in the order sorted() gives their file names
\* ('-' < '.' < ':' < '_'): a model of the table and one that is not in
\* it, each bare and with a language suffix on each of the separators
BfStems ==
    << <<"gpt-oss:120b", "-", "en">>, <<"gpt-oss:120b">>,
       <<"gpt-oss:120b", ":", "no">>, <<"gpt-oss:120b", "_", "en">>,
       <<"mistral:7b", "-", "en">>, <<"mistral:7b">>,
       <<"mistral:7b", ":", "no">>, <<"mistral:7b", "_", "en">> >>

\* what a log file holds: nothing, text that is not JSON, JSON that is not
\* an object, or an object with or without a num_gpus key
BfContents ==
    [kind : {"empty", "malformed", "non-object"}, num_gpus : {Missing}]
        \cup [kind : {"object"}, num_gpus : {Missing, Some(4)}]

\* sorted(results_dir.glob("*.log")): at most n files of distinct names
BfDirs(n) ==
    UNION {{[i \in 1..k |-> [stem |-> BfStems[pick[i]],
                             kind |-> body[i].kind,
                             num_gpus |-> body[i].num_gpus]] :
               pick \in {q \in [1..k -> 1..Len(BfStems)] :
                             \A i \in 1..(k - 1) : q[i] < q[i + 1]},
               body \in [1..k -> BfContents]} : k \in 0..n}

\* log_file.stem.rsplit("_", 1)[0]
RSplitUnderscore(stem) ==
    IF Positions(stem, "_") = {} THEN stem
    ELSE SubSeq(stem, 1, SetMax(Positions(stem, "_")) - 1)

\* update_log_files lines 59-60
BackfillCount(stem) ==
    IF RSplitUnderscore(stem) \in DOMAIN GPU_COUNTS
    THEN GPU_COUNTS[RSplitUnderscore(stem)]
    ELSE DefaultNumGpus

BfIdle ==
    /\ bf_dir = <<>>
    /\ bf_written = <<>>
    /\ bf_updated = 0
    /\ bf_log = <<>>

BfInit ==
    /\ bf_dir \in BfDirs(MaxDir)
    /\ bf_written = <<>>
    /\ bf_updated = 0
    /\ bf_log = <<>>

\* the file the loop of update_log_files is at
BfFile == bf_dir[Len(bf_written) + 1]

\* update_log_files lines 43-56: an empty file, a JSON value that is not an
\* object and an object that has num_gpus are passed over (verbose is off)
BackfillSkip ==
    /\ Len(bf_written) < Len(bf_dir)
    /\ \/ BfFile.kind \in {"empty", "non-object"}
       \/ BfFile.kind = "object" /\ BfFile.num_gpus # Missing
    /\ bf_written' = Append(bf_written, Missing)
    /\ UNCHANGED <<bf_dir, bf_updated, bf_log>>
    /\ UNCHANGED <<run_vars, cmp_vars, stat_vars, par_vars, fr_vars, bl_vars, sp_vars>>

\* update_log_files lines 49, 68-69: json.loads raises, the loop goes on
BackfillError ==
    /\ Len(bf_written) < Len(bf_dir)
    /\ BfFile.kind = "malformed"
    /\ bf_written' = Append(bf_written, Missing)
    /\ bf_log' = Append(bf_log, [kind |-> "error", stem |-> BfFile.stem])
    /\ UNCHANGED <<bf_dir, bf_updated>>
    /\ UNCHANGED <<run_vars, cmp_vars, stat_vars, par_vars, fr_vars, bl_vars, sp_vars>>

\* update_log_files lines 58-67: num_gpus is looked up and written
BackfillUpdate ==
    /\ Len(bf_written) < Len(bf_dir)
    /\ BfFile.kind = "object"
    /\ BfFile.num_gpus = Missing
    /\ bf_written' = Append(bf_written, Some(BackfillCount(BfFile.stem)))
    /\ bf_updated' = bf_updated + 1
    /\ bf_log' = IF BackfillCount(BfFile.stem) > 1
                 THEN Append(bf_log, [kind |-> "updated", stem |-> BfFile.stem])
                 ELSE bf_log
    /\ UNCHANGED bf_dir
    /\ UNCHANGED <<run_vars, cmp_vars, stat_vars, par_vars, fr_vars, bl_vars, sp_vars>>

BfNext ==
    \/ BackfillSkip
    \/ BackfillError
    \/ BackfillUpdate

(***************************************************************************)
(* Properties of the backfill.                                             *)
(***************************************************************************)
\* C17: a file whose stem is a model name followed by a language suffix on
\* any of the separators '_', '-' and ':' is backfilled with the table's
\* value for that model, or with the default 1 when the model is not in
\* the table; the '<model>-<lang>' stems the evaluation runner writes are
\* among them.
C17_SuffixedStemGetsTableValue ==
    \A k \in 1..Len(bf_written) :
        \A sep \in Seps, lang \in {"en", "no"} :
            (/\ bf_dir[k].kind = "object"
             /\ bf_dir[k].num_gpus = Missing
             /\ Len(bf_dir[k].stem) = 3
             /\ SubSeq(bf_dir[k].stem, 2, 3) = <<sep, lang>>) =>
                bf_written[k] =
                    Some(IF SubSeq(bf_dir[k].stem, 1, 1) \in DOMAIN GPU_COUNTS
                         THEN GPU_COUNTS[SubSeq(bf_dir[k].stem, 1, 1)]
                         ELSE 1)

(***************************************************************************)
(* calculate_mcnemar.load_model_results on a .txt list of result files     *)
(***************************************************************************)
\* what a path of the list leads to: no file, a file whose text is not
\* JSON, or a file holding a list of graded items
BlEntries ==
    [kind : {"missing", "malformed"}, items : {<<>>}]
        \cup [kind : {"ok"},
              items : {<<[question_num |-> Some(0), grade |-> g]>> :
                          g \in Grades}]

\* the lists of at most n paths
BlLists(n) ==
    UNION {{[i \in 1..k |-> [stem |-> i, kind |-> e[i].kind,
                             items |-> e[i].items]] :
               e \in [1..k -> BlEntries]} : k \in 0..n}

BlIdle ==
    /\ bl_list = <<>>
    /\ bl_pos = 0
    /\ bl_results = <<>>
    /\ bl_names = <<>>
    /\ bl_log = <<>>
    /\ bl_error = None

BlInit ==
    /\ bl_list \in BlLists(MaxList)
    /\ bl_pos = 0
    /\ bl_results = <<>>
    /\ bl_names = <<>>
    /\ bl_log = <<>>
    /\ bl_error = None

\* the path the loop of load_model_results is at
BlEntry == bl_list[bl_pos + 1]

\* load_model_results lines 54-57: the path does not exist
BatchMissing ==
    /\ bl_error = None
    /\ bl_pos < Len(bl_list)
    /\ BlEntry.kind = "missing"
    /\ bl_log' = Append(bl_log, [kind |-> "warning", stem |-> BlEntry.stem])
    /\ bl_pos' = bl_pos + 1
    /\ UNCHANGED <<bl_list, bl_results, bl_names, bl_error>>
    /\ UNCHANGED <<run_vars, cmp_vars, stat_vars, par_vars, fr_vars, bf_vars, sp_vars>>

\* load_model_results lines 58-59: the file loads and its items are added
BatchLoad ==
    /\ bl_error = None
    /\ bl_pos < Len(bl_list)
    /\ BlEntry.kind = "ok"
    /\ bl_results' = bl_results \o BlEntry.items
    /\ bl_names' = Append(bl_names, BlEntry.stem)
    /\ bl_pos' = bl_pos + 1
    /\ UNCHANGED <<bl_list, bl_log, bl_error>>
    /\ UNCHANGED <<run_vars, cmp_vars, stat_vars, par_vars, fr_vars, bf_vars, sp_vars>>

\* load_model_results line 58, load_results line 31: json.loads raises, and
\* nothing between it and main catches the exception
BatchRaise ==
    /\ bl_error = None
    /\ bl_pos < Len(bl_list)
    /\ BlEntry.kind = "malformed"
    /\ bl_error' = "JSONDecodeError"
    /\ UNCHANGED <<bl_list, bl_pos, bl_results, bl_names, bl_log>>
    /\ UNCHANGED <<run_vars, cmp_vars, stat_vars, par_vars, fr_vars, bf_vars, sp_vars>>

BlNext ==
    \/ BatchMissing
    \/ BatchLoad
    \/ BatchRaise

(***************************************************************************)
(* Properties of the batch scans.                                          *)
(***************************************************************************)
\* C20: in a scan of many files a file that is missing, malformed or
\* unreadable is passed over with a warning and the files after it are
\* still processed: the scan of a list of result files never ends in an
\* exception, every path passed that is not a good file has its warning,
\* and the scan goes on until the list is exhausted.
C20_BadFileIsSkipped ==
    /\ bl_error = None
    /\ \A k \in 1..bl_pos :
           bl_list[k].kind # "ok" =>
               \E i \in 1..Len(bl_log) : bl_log[i].stem = bl_list[k].stem
    /\ bl_pos = Len(bl_list) \/ ENABLED BlNext

(***************************************************************************)
(* The post-processing of an answer (evaluate.py lines 126-129) on its     *)
(* own, for any text.                                                      *)
(***************************************************************************)
\* the tokens of a text: the two markers, a word, a newline
TextTokens == {"<think>", "</think>", "a", "NL"}

SpIdle ==
    /\ sp_strip = FALSE
    /\ sp_in = <<>>
    /\ sp_out = Missing

SpInit ==
    /\ sp_strip \in BOOLEAN
    /\ sp_in \in SeqsUpTo(TextTokens, MaxText)
    /\ sp_out = Missing

\* run_eval lines 126-129
ApplyPostProcess ==
    /\ sp_out = Missing
    /\ sp_out' = Some(PostProcess(sp_strip, sp_in))
    /\ UNCHANGED <<sp_strip, sp_in>>
    /\ UNCHANGED <<run_vars, cmp_vars, stat_vars, par_vars, fr_vars, bf_vars,
                   bl_vars>>

SpNext == ApplyPostProcess

(***************************************************************************)
(* Properties of the post-processing.                                      *)
(***************************************************************************)
\* the start markers of the text that an end marker follows
OpenedSpans ==
    {p \in Positions(sp_in, "<think>") :
        \E q \in Positions(sp_in, "</think>") : q > p}

\* C22: with the strip enabled the recorded answer is the text without its
\* first marked span only, from the first start marker to the nearest end
\* marker after it (with or without the newline that follows the span),
\* then trimmed: what lies after that end marker, a later span included,
\* is kept.  A text without a span is only trimmed.
C22_FirstSpanOnly ==
    (sp_out # Missing /\ sp_strip) =>
        IF OpenedSpans = {}
        THEN sp_out[1] = Strip(sp_in)
        ELSE LET p == SetMin(OpenedSpans)
                 q == SetMin({c \in Positions(sp_in, "</think>") : c > p})
             IN  \/ sp_out[1] = Strip(SubSeq(sp_in, 1, p - 1) \o Suffix(sp_in, q))
                 \/ /\ q < Len(sp_in)
                    /\ sp_in[q + 1] = "NL"
                    /\ sp_out[1] = Strip(SubSeq(sp_in, 1, p - 1)
                                             \o Suffix(sp_in, q + 1))

(***************************************************************************)
(* The specifications: each runs one program and leaves the others idle.   *)
(***************************************************************************)
ToolsIdle == FrIdle /\ BfIdle /\ BlIdle /\ SpIdle

RunnerInit == RunInit /\ CmpIdle /\ StatIdle /\ ParIdle /\ ToolsIdle

SpecRunner == RunnerInit /\ [][RunNext]_vars

KilledRunnerInit == RunInit /\ CmpIdle /\ StatIdle /\ ParIdle /\ ToolsIdle

SpecKilledRunner == KilledRunnerInit /\ [][RunOrKillNext]_vars

CompareInit == CmpInit /\ RunIdle /\ StatIdle /\ ParIdle /\ ToolsIdle

SpecCompare == CompareInit /\ [][CmpNext]_vars

StatisticInit == StatInit /\ RunIdle /\ CmpIdle /\ ParIdle /\ ToolsIdle

SpecStatistic == StatisticInit /\ [][StatNext]_vars

ParetoInit == ParInit /\ RunIdle /\ CmpIdle /\ StatIdle /\ ToolsIdle

SpecPareto == ParetoInit /\ [][ParNext]_vars

GradesInit == GradeInit /\ RunIdle /\ StatIdle /\ ParIdle /\ ToolsIdle

SpecGrades == GradesInit /\ [][CmpNext]_vars

GradedRunsInit == AlignedInit /\ RunIdle /\ StatIdle /\ ParIdle /\ ToolsIdle

SpecGradedRuns == GradedRunsInit /\ [][CmpNext]_vars

ProgramsIdle == RunIdle /\ CmpIdle /\ StatIdle /\ ParIdle

FrontierInit == FrInit /\ BfIdle /\ BlIdle /\ SpIdle /\ ProgramsIdle

SpecFrontier == FrontierInit /\ [][FrNext]_vars

BackfillInit == BfInit /\ FrIdle /\ BlIdle /\ SpIdle /\ ProgramsIdle

SpecBackfill == BackfillInit /\ [][BfNext]_vars

BatchInit == BlInit /\ FrIdle /\ BfIdle /\ SpIdle /\ ProgramsIdle

SpecBatch == BatchInit /\ [][BlNext]_vars

StripInit == SpInit /\ FrIdle /\ BfIdle /\ BlIdle /\ ProgramsIdle

SpecStrip == StripInit /\ [][SpNext]_vars

=============================================================================
